---- MODULE Spec2Model ----
(***************************************************************************)
(* Neural Thompson Sampling agent (NeuralThompsonSampling/agent.py).       *)
(*                                                                         *)
(* The model follows NeuralNetwork and NeuralAgent statement by statement  *)
(* for the configuration d = 2, m = 4, L = 2, K = 2, lambda_ = 1, nu = 0.  *)
(* Real numbers are modelled on the integers: sqrt(m) = 2 is exact, every  *)
(* product and sum is exact, and a division rounds toward zero (Quot).     *)
(* numpy's global generator and random.Random are modelled by small linear *)
(* congruential generators: what matters is that a draw is a function of   *)
(* the generator's state and advances it.                                  *)
(***************************************************************************)
EXTENDS Integers, Sequences, FiniteSets, TLC

\* ------------------------------------------------------------ configuration
d == 2
m == 4
L == 2
K == 2
p == m + m * d + m * m * (L - 2)
lambda_ == 1
nu == 0
SqrtM == 2
EtaDen == 8
NetSeed == 12345
EpochCap == 100
\* an optional value: None, or Some(n) holding n
None == <<>>

Some(n) == <<n>>

\* bounds of the model
MaxT == 3
MaxMisuse == 1

AgentIds == {1, 2}

\* ------------------------------------------------------------ arithmetic
Quot(a, b) == IF a >= 0 THEN a \div b ELSE -((-a) \div b)

Min(a, b) == IF a < b THEN a ELSE b

\* a sequence given by a rule, evaluated once into a tuple
Eager(s) == s \o <<>>

RECURSIVE Dot(_, _)
Dot(u, v) == IF u = <<>> THEN 0 ELSE u[1] * v[1] + Dot(Tail(u), Tail(v))

Zeros(n) == Eager([i \in 1..n |-> 0])

Column(M, j) == Eager([k \in 1..Len(M) |-> M[k][j]])

\* ------------------------------------------------------------ generators
\* np.random: seed, one draw of randn, one draw of an index in 0..hi
NpSeed(seed) == seed % 16

NpStep(s) == (5 * s + 3) % 16

Randn(s) == IF s % 2 = 0 THEN 1 + (s \div 8) ELSE -1 - (s \div 8)

RECURSIVE NpRandn(_, _)
\* n draws from state s: <<the draws, the state after them>>
NpRandn(s, n) ==
  IF n = 0 THEN <<<<>>, s>>
  ELSE LET s1 == NpStep(s)
           rest == NpRandn(s1, n - 1)
       IN <<<<Randn(s1)>> \o rest[1], rest[2]>>

Swap(perm, i, j) == [perm EXCEPT ![i] = perm[j], ![j] = perm[i]]

RECURSIVE ShuffleFrom(_, _, _)
\* Fisher-Yates from position i (1-based) down to 2: <<permutation, state>>
ShuffleFrom(perm, i, s) ==
  IF i < 2 THEN <<perm, s>>
  ELSE LET s1 == NpStep(s)
           j == (s1 % i) + 1
       IN ShuffleFrom(Swap(perm, i, j), i - 1, s1)

\* np.random.shuffle(np.arange(n)): indices are 0-based as in the source
NpShuffle(n, s) == ShuffleFrom(Eager([i \in 1..n |-> i - 1]), n, s)

\* random.Random: seed and the state after one normalvariate
RandomSeed(seed) == seed % 4

RandomStep(s) == (s + 1) % 4

\* normalvariate(mu, sigma) = mu + z * sigma, z drawn from the state
NormalVariate(mu, sigma, s) == mu + ((s % 3) - 1) * sigma

\* ------------------------------------------------------------ network
\* a parameter set: W1 is d x m (rows), W2 is m x 1 (a vector)
ParamZeros == [W1 |-> Eager([k \in 1..d |-> Zeros(m)]), W2 |-> Zeros(m)]

\* NeuralNetwork.__init__: the block-diagonal W1 and the antisymmetric W2
NetWeights(seed) ==
  LET r1 == NpRandn(NpSeed(seed), (d \div 2) * (m \div 2))
      r2 == NpRandn(r1[2], (m \div 2) * (m \div 2))
      r3 == NpRandn(r2[2], m \div 2)
      w1 == r1[1]
      wL == r3[1]
  IN [W |-> [W1 |-> Eager([k \in 1..d |-> Eager([j \in 1..m |->
                       IF k <= d \div 2 /\ j <= m \div 2
                       THEN w1[(k - 1) * (m \div 2) + j]
                       ELSE IF k > d \div 2 /\ j > m \div 2
                       THEN w1[(k - 1 - d \div 2) * (m \div 2) + (j - m \div 2)]
                       ELSE 0])]),
             W2 |-> Eager([j \in 1..m |->
                       IF j <= m \div 2 THEN wL[j] ELSE -wL[j - m \div 2]])],
      np |-> r3[2]]

Relu(v) == IF v > 0 THEN v ELSE 0

PreAct(Wt, x) == Eager([j \in 1..m |-> Dot(x, Column(Wt.W1, j))])

Hidden(Wt, x) ==
  LET pre == PreAct(Wt, x)
  IN Eager([j \in 1..m |-> Relu(pre[j])])

\* forward on one context: x W1, ReLU, W2, times sqrt(m)
Forward(Wt, x) == Dot(Hidden(Wt, x), Wt.W2) * SqrtM

\* the gradient of Forward(Wt, x) with respect to every weight
OutGrad(Wt, x) ==
  LET pre == PreAct(Wt, x)
  IN [W1 |-> Eager([k \in 1..d |-> Eager([j \in 1..m |->
                 IF pre[j] > 0 THEN SqrtM * x[k] * Wt.W2[j] ELSE 0])]),
      W2 |-> Eager([j \in 1..m |-> SqrtM * Relu(pre[j])])]

PAdd(P, Q) ==
  [W1 |-> Eager([k \in 1..d |-> Eager([j \in 1..m |-> P.W1[k][j] + Q.W1[k][j]])]),
   W2 |-> Eager([j \in 1..m |-> P.W2[j] + Q.W2[j]])]

RECURSIVE Concat(_)
Concat(rows) == IF rows = <<>> THEN <<>> ELSE rows[1] \o Concat(Tail(rows))

\* parameters() order W1, W2; each flattened row-major
Flatten(P) == Concat(P.W1) \o P.W2

\* backward() adds into .grad: the buffers after one more GetGrad call
GetGradBuffers(gr, Wt, x) == PAdd(gr, OutGrad(Wt, x))


Unflatten(v) ==
  [W1 |-> Eager([k \in 1..d |-> Eager([j \in 1..m |-> v[(k - 1) * m + j]])]),
   W2 |-> Eager([j \in 1..m |-> v[d * m + j]])]

\* ------------------------------------------------------------ state
VARIABLES
  alive,              \* agent -> constructed
  cfg,                \* agent -> [T, frequency, batchsize, random_seed]
  W, W0,              \* mynn.W, mynn.W0
  grad,               \* the parameters' .grad buffers
  U,                  \* self.U, p x p
  t,                  \* self.t
  history_reward, history_action, predicted_reward, history_context,
  random_generator,   \* self.random_generator
  np_random,          \* numpy's process-wide generator
  last,               \* the last call, its arguments and how it ended
  turn,               \* the operation the caller owes next
  misuse,             \* calls made out of turn, malformed or raising
  nUpdates,           \* Update calls that returned
  written,            \* slots assigned in each history buffer
  trainLog,           \* what the last Update's retraining did
  Wctor,              \* the weights as drawn at construction
  env                 \* the scripted rounds of a paired run

vars == <<alive, cfg, W, W0, grad, U, t, history_reward, history_action,
          predicted_reward, history_context, random_generator, np_random,
          last, turn, misuse, nUpdates, written, trainLog, Wctor, env>>

\* ------------------------------------------------------------ inputs
Configs ==
  { [T |-> MaxT, frequency |-> 1, batchsize |-> Some(2), random_seed |-> 1],
    [T |-> MaxT, frequency |-> 2, batchsize |-> Some(1), random_seed |-> 1],
    [T |-> MaxT, frequency |-> 2, batchsize |-> None, random_seed |-> 2] }

GoodContexts ==
  { << <<0, 1>>, <<1, 0>> >>,
    << <<1, 1>>, <<1, 1>> >> }

BadContexts ==
  { << <<1, 0>> >>,
    << <<1, 0>>, <<0, 1>>, <<1, 1>> >>,
    << <<1, 0, 1>>, <<0, 1, 0>> >> }

Rewards == {0, 1}

WellFormed(ctx) == Len(ctx) = K /\ \A k \in 1..Len(ctx) : Len(ctx[k]) = d

\* ------------------------------------------------------------ construction
Identity(n) == Eager([i \in 1..n |-> Eager([j \in 1..n |-> IF i = j THEN 1 ELSE 0])])

ScaleMat(c, M) ==
  Eager([i \in 1..Len(M) |-> Eager([j \in 1..Len(M) |-> c * M[i][j]])])

NoWrites == [action |-> {}, reward |-> {}, predicted |-> {}, context |-> {}]

NoTraining == [ran |-> FALSE, round |-> 0, pre |-> ParamZeros,
               start |-> ParamZeros, steps |-> 0, epochs |-> <<>>]

NoCall == [agent |-> 0, op |-> "none", arg |-> 0, result |-> "ok", ret |-> 0,
           grads |-> <<>>]

\* the snapshot W0[key] = deepcopy(W[key])
Snapshot(Wt) == Wt

Init ==
  /\ alive = [a \in AgentIds |-> FALSE]
  /\ cfg = [a \in AgentIds |-> [T |-> 0, frequency |-> 1, batchsize |-> None,
                                random_seed |-> 0]]
  /\ W = [a \in AgentIds |-> ParamZeros]
  /\ W0 = [a \in AgentIds |-> ParamZeros]
  /\ grad = [a \in AgentIds |-> Zeros(p)]
  /\ U = [a \in AgentIds |-> <<>>]
  /\ t = [a \in AgentIds |-> 0]
  /\ history_reward = [a \in AgentIds |-> <<>>]
  /\ history_action = [a \in AgentIds |-> <<>>]
  /\ predicted_reward = [a \in AgentIds |-> <<>>]
  /\ history_context = [a \in AgentIds |-> <<>>]
  /\ random_generator = [a \in AgentIds |-> 0]
  /\ np_random = 0
  /\ last = NoCall
  /\ turn = [a \in AgentIds |-> "Action"]
  /\ misuse = [a \in AgentIds |-> 0]
  /\ nUpdates = [a \in AgentIds |-> 0]
  /\ written = [a \in AgentIds |-> NoWrites]
  /\ trainLog = [a \in AgentIds |-> NoTraining]
  /\ Wctor = [a \in AgentIds |-> ParamZeros]
  /\ env = <<>>

\* NeuralAgent.__init__ (which builds the NeuralNetwork with its default seed)
Construct(a, c) ==
  /\ ~alive[a]
  /\ LET net == NetWeights(NetSeed)
     IN /\ alive' = [alive EXCEPT ![a] = TRUE]
        /\ cfg' = [cfg EXCEPT ![a] = c]
        /\ random_generator' = [random_generator EXCEPT ![a] = RandomSeed(c.random_seed)]
        /\ np_random' = net.np
        /\ W' = [W EXCEPT ![a] = net.W]
        /\ W0' = [W0 EXCEPT ![a] = Snapshot(net.W)]
        /\ Wctor' = [Wctor EXCEPT ![a] = net.W]
        /\ grad' = [grad EXCEPT ![a] = Zeros(p)]
        /\ U' = [U EXCEPT ![a] = ScaleMat(lambda_, Identity(p))]
        /\ t' = [t EXCEPT ![a] = 0]
        /\ history_reward' = [history_reward EXCEPT ![a] = Zeros(c.T)]
        /\ history_action' = [history_action EXCEPT ![a] = Zeros(c.T)]
        /\ predicted_reward' = [predicted_reward EXCEPT ![a] = Zeros(c.T)]
        /\ history_context' = [history_context EXCEPT ![a] = Eager([i \in 1..c.T |-> Zeros(d)])]
        /\ last' = [agent |-> a, op |-> "Construct", arg |-> c, result |-> "ok",
                    ret |-> 0, grads |-> <<>>]
        /\ UNCHANGED <<turn, misuse, nUpdates, written, trainLog, env>>

\* ------------------------------------------------------------ Action
\* np.sqrt(nu**2 * sigma_t_k2), where sigma_t_k2 = lambda_ * g.U^-1.g / m is
\* finite because U is invertible: nu = 0 makes the deviation 0 for every arm
Sigma == nu * nu

RECURSIVE ArmLoop(_, _, _, _)
\* the for loop over the arms, from `arm` on; acc carries what it has done
ArmLoop(arm, ctx, Wt, acc) ==
  IF arm > K THEN acc
  ELSE IF arm > Len(ctx) THEN [acc EXCEPT !.err = "IndexError"]
  ELSE IF Len(ctx[arm]) # d THEN [acc EXCEPT !.err = "AssertionError"]
  ELSE LET x == ctx[arm]
           g == Flatten(GetGradBuffers(Unflatten(acc.grad), Wt, x))
           mu == Forward(Wt, x)
       IN ArmLoop(arm + 1, ctx, Wt,
                  [err |-> "ok",
                   grad |-> g,
                   rng |-> RandomStep(acc.rng),
                   sample |-> Append(acc.sample, NormalVariate(mu, Sigma, acc.rng)),
                   predict |-> Append(acc.predict, mu),
                   glog |-> Append(acc.glog, [x |-> x, g |-> g])])

\* np.argmax: the first index (0-based) holding the maximum
ArgMax(s) ==
  (CHOOSE i \in 1..Len(s) :
     /\ \A j \in 1..Len(s) : s[j] <= s[i]
     /\ \A j \in 1..(i - 1) : s[j] < s[i]) - 1

ActionCall(a, ctx) ==
  /\ alive[a]
  /\ \E loop \in {ArmLoop(1, ctx, W[a],
                         [err |-> "ok", grad |-> grad[a], rng |-> random_generator[a],
                          sample |-> <<>>, predict |-> <<>>, glog |-> <<>>])} :
     LET ind == ArgMax(loop.sample)
         full == loop.err = "ok" /\ t[a] >= cfg[a].T
         res == IF full THEN "IndexError" ELSE loop.err
         bad == turn[a] # "Action" \/ ~WellFormed(ctx) \/ res # "ok"
     IN /\ misuse[a] + (IF bad THEN 1 ELSE 0) <= MaxMisuse
        /\ misuse' = [misuse EXCEPT ![a] = @ + (IF bad THEN 1 ELSE 0)]
        /\ grad' = [grad EXCEPT ![a] = loop.grad]
        /\ random_generator' = [random_generator EXCEPT ![a] = loop.rng]
        /\ last' = [agent |-> a, op |-> "Action", arg |-> ctx, result |-> res,
                    ret |-> IF res = "ok" THEN ind ELSE 0, grads |-> loop.glog]
        /\ IF res = "ok"
           THEN /\ history_action' = [history_action EXCEPT ![a][t[a] + 1] = ind]
                /\ history_context' = [history_context EXCEPT ![a][t[a] + 1] = ctx[ind + 1]]
                /\ predicted_reward' = [predicted_reward EXCEPT ![a][t[a] + 1] = loop.predict[ind + 1]]
                /\ written' = [written EXCEPT ![a].action = @ \cup {t[a]},
                                              ![a].context = @ \cup {t[a]},
                                              ![a].predicted = @ \cup {t[a]}]
                /\ turn' = [turn EXCEPT ![a] = IF bad THEN @ ELSE "Update"]
           ELSE UNCHANGED <<history_action, history_context, predicted_reward,
                            written, turn>>
        /\ UNCHANGED <<alive, cfg, W, W0, U, t, history_reward, np_random,
                       nUpdates, trainLog, Wctor, env>>


\* ------------------------------------------------------------ Update
\* a sign slip in the accumulation: U - g.g / m
UpdateU_Subtract(Um, g) ==
  LET gg == Dot(g, g)
  IN Eager([i \in 1..Len(Um) |-> Eager([j \in 1..Len(Um) |-> Um[i][j] - Quot(gg, m)])])

\* self.U + grad_parameter.dot(grad_parameter.transpose()) / self.m
UpdateU(Um, g) ==
  LET gg == Dot(g, g)
  IN Eager([i \in 1..Len(Um) |-> Eager([j \in 1..Len(Um) |-> Um[i][j] + Quot(gg, m)])])

\* the reset left out: retraining goes on from the live weights
ResetWeights_Skipped(Wt, W0t) == Wt

\* W[key].data = deepcopy(W0[key].data)
ResetWeights(Wt, W0t) == W0t

\* seq[lo:hi] of Python, on a 1-based sequence
Slice(s, lo, hi) == SubSeq(s, lo + 1, Min(hi, Len(s)))

\* the remainder batch forgotten: only the (tt + 1) \div bs full slices
Batches_DropRemainder(perm, tt, bs) ==
  Eager([bi \in 1..((tt + 1) \div bs) |-> Slice(perm, (bi - 1) * bs, bi * bs)])

\* the minibatches of one epoch: slices of the shuffled indices 0..tt
Batches(perm, tt, bs) ==
  Eager([bi \in 1..(tt \div bs + 1) |->
           IF bi - 1 < tt \div bs
           THEN Slice(perm, (bi - 1) * bs, bi * bs)
           ELSE Slice(perm, (bi - 1) * bs, Len(perm))])

RECURSIVE ErrGrad(_, _, _, _)
\* the sum over the batch of (output - y) times the output's gradient
ErrGrad(batch, Wt, ctxs, rews) ==
  IF batch = <<>> THEN Zeros(p)
  ELSE LET x == ctxs[batch[1] + 1]
           e == Forward(Wt, x) - rews[batch[1] + 1]
           og == Flatten(OutGrad(Wt, x))
           rest == ErrGrad(Tail(batch), Wt, ctxs, rews)
       IN Eager([i \in 1..p |-> e * og[i] + rest[i]])

\* loss.backward() after zero_grad(): MSELoss plus the lambda_ / 2 / p penalty
LossGrad(batch, Wt, W0t, ctxs, rews) ==
  LET n == Len(batch)
      s == ErrGrad(batch, Wt, ctxs, rews)
      th == Flatten(Wt)
      th0 == Flatten(W0t)
  IN Eager([i \in 1..p |-> Quot(2 * p * s[i] + lambda_ * n * (th[i] - th0[i]), n * p)])

\* optimizer.step() with lr = eta = 1 / EtaDen
SgdStep(Wt, g) ==
  LET th == Flatten(Wt)
  IN Unflatten(Eager([i \in 1..p |-> th[i] - Quot(g[i], EtaDen)]))

RECURSIVE BatchLoop(_, _, _, _, _)
BatchLoop(batches, st, W0t, ctxs, rews) ==
  IF batches = <<>> THEN st
  ELSE LET g == LossGrad(batches[1], st.W, W0t, ctxs, rews)
       IN BatchLoop(Tail(batches),
                    [W |-> SgdStep(st.W, g), grad |-> g, steps |-> st.steps + 1],
                    W0t, ctxs, rews)

RECURSIVE EpochLoop(_, _, _, _, _, _, _)
\* the epochs jj..Min(tt, EpochCap) - 1 of one retraining
EpochLoop(jj, st, W0t, ctxs, rews, tt, bs) ==
  IF jj >= Min(tt, EpochCap) THEN st
  ELSE LET sh == NpShuffle(tt + 1, st.np)
       IN IF bs = None
          THEN [st EXCEPT !.np = sh[2], !.err = "TypeError"]
          ELSE LET batches == Batches(sh[1], tt, bs[1])
                   after == BatchLoop(batches,
                                      [W |-> st.W, grad |-> st.grad, steps |-> st.steps],
                                      W0t, ctxs, rews)
               IN EpochLoop(jj + 1,
                            [W |-> after.W, grad |-> after.grad, steps |-> after.steps,
                             np |-> sh[2], err |-> "ok",
                             epochs |-> Append(st.epochs, batches)],
                            W0t, ctxs, rews, tt, bs)

\* the increment left out
NextT_Stuck(tt) == tt

\* self.t += 1
NextT(tt) == tt + 1

UpdateCall(a, reward) ==
  /\ alive[a]
  /\ IF t[a] >= cfg[a].T
     THEN \* history_reward[self.t] = reward raises before anything is written
          /\ misuse[a] + 1 <= MaxMisuse
          /\ misuse' = [misuse EXCEPT ![a] = @ + 1]
          /\ last' = [agent |-> a, op |-> "Update", arg |-> reward,
                      result |-> "IndexError", ret |-> 0, grads |-> <<>>]
          /\ UNCHANGED <<alive, cfg, W, W0, grad, U, t, history_reward,
                         history_action, predicted_reward, history_context,
                         random_generator, np_random, turn, nUpdates, written,
                         trainLog, Wctor, env>>
     ELSE LET rews == [history_reward[a] EXCEPT ![t[a] + 1] = reward]
              context == history_context[a][t[a] + 1]
              retrain == (t[a] + 1) % cfg[a].frequency = 0
              start == ResetWeights(W[a], W0[a])
          IN \E g \in {Flatten(GetGradBuffers(Unflatten(grad[a]), W[a], context))} :
             \E tr \in {IF retrain
                        THEN EpochLoop(0, [W |-> start, grad |-> g, steps |-> 0,
                                           np |-> np_random, err |-> "ok",
                                           epochs |-> <<>>],
                                       W0[a], history_context[a], rews, t[a],
                                       cfg[a].batchsize)
                        ELSE [W |-> W[a], grad |-> g, steps |-> 0, np |-> np_random,
                              err |-> "ok", epochs |-> <<>>]} :
             LET bad == turn[a] # "Update" \/ tr.err # "ok"
             IN
             /\ misuse[a] + (IF bad THEN 1 ELSE 0) <= MaxMisuse
             /\ misuse' = [misuse EXCEPT ![a] = @ + (IF bad THEN 1 ELSE 0)]
             /\ history_reward' = [history_reward EXCEPT ![a] = rews]
             /\ written' = [written EXCEPT ![a].reward = @ \cup {t[a]}]
             /\ U' = [U EXCEPT ![a] = UpdateU(@, g)]
             /\ W' = [W EXCEPT ![a] = tr.W]
             /\ grad' = [grad EXCEPT ![a] = tr.grad]
             /\ np_random' = tr.np
             /\ trainLog' = [trainLog EXCEPT ![a] =
                               IF retrain
                               THEN [ran |-> TRUE, round |-> t[a], pre |-> W[a],
                                     start |-> start,
                                     steps |-> tr.steps, epochs |-> tr.epochs]
                               ELSE NoTraining]
             /\ t' = [t EXCEPT ![a] = IF tr.err = "ok" THEN NextT(@) ELSE @]
             /\ nUpdates' = [nUpdates EXCEPT ![a] = IF tr.err = "ok" THEN @ + 1 ELSE @]
             /\ turn' = [turn EXCEPT ![a] = IF bad THEN @ ELSE "Action"]
             /\ last' = [agent |-> a, op |-> "Update", arg |-> reward,
                         result |-> tr.err, ret |-> 0,
                         grads |-> <<[x |-> context, g |-> g]>>]
             /\ UNCHANGED <<alive, cfg, W0, history_action, predicted_reward,
                            history_context, random_generator, Wctor, env>>

\* ------------------------------------------------------------ one agent
\* a caller that hands over K x d matrices, in any order of calls
Next ==
  \/ \E c \in Configs : Construct(1, c)
  \/ \E ctx \in GoodContexts : ActionCall(1, ctx)
  \/ \E r \in Rewards : UpdateCall(1, r)

Spec == Init /\ [][Next]_vars

\* a caller that also hands over matrices of the wrong shape
NextShapes ==
  \/ \E c \in Configs : Construct(1, c)
  \/ \E ctx \in GoodContexts \cup BadContexts : ActionCall(1, ctx)
  \/ \E r \in Rewards : UpdateCall(1, r)

SpecShapes == Init /\ [][NextShapes]_vars


\* ------------------------------------------------------------ properties
Symmetric(M) == \A i \in 1..Len(M) : \A j \in 1..Len(M) : M[i][j] = M[j][i]

RECURSIVE MinorsPositive(_, _, _)
\* Sylvester's criterion by fraction-free elimination: after k - 1 steps M[k][k]
\* is the k-th leading principal minor, and `prev` the one before it
MinorsPositive(M, k, prev) ==
  IF M[k][k] <= 0 THEN FALSE
  ELSE IF k = Len(M) THEN TRUE
  ELSE MinorsPositive(
         Eager([i \in 1..Len(M) |-> Eager([j \in 1..Len(M) |->
            IF i > k /\ j > k
            THEN (M[i][j] * M[k][k] - M[i][k] * M[k][j]) \div prev
            ELSE M[i][j]])]),
         k + 1, M[k][k])

PositiveDefinite(M) == MinorsPositive(M, 1, 1)

\* C5: U is symmetric and positive-definite from construction on, after every
\* Update, whatever calls were made
C5_USymmetricPositiveDefinite ==
  \A a \in AgentIds : alive[a] => Symmetric(U[a]) /\ PositiveDefinite(U[a])

C5_Witness ==
  \E a \in AgentIds : alive[a] /\ nUpdates[a] >= 2 /\ U[a][1][2] > 0


\* ------------------------------------------------------------ two agents
\* a paired run: both agents are driven in turn from the same script of rounds
PairConfigs ==
  { [T |-> MaxT, frequency |-> 2, batchsize |-> Some(1), random_seed |-> 1],
    [T |-> MaxT, frequency |-> 1, batchsize |-> Some(2), random_seed |-> 1] }

Scripts == [1..MaxT -> [ctx : GoodContexts, reward : Rewards]]

InitPair ==
  /\ alive = [a \in AgentIds |-> FALSE]
  /\ cfg = [a \in AgentIds |-> [T |-> 0, frequency |-> 1, batchsize |-> None,
                                random_seed |-> 0]]
  /\ W = [a \in AgentIds |-> ParamZeros]
  /\ W0 = [a \in AgentIds |-> ParamZeros]
  /\ grad = [a \in AgentIds |-> Zeros(p)]
  /\ U = [a \in AgentIds |-> <<>>]
  /\ t = [a \in AgentIds |-> 0]
  /\ history_reward = [a \in AgentIds |-> <<>>]
  /\ history_action = [a \in AgentIds |-> <<>>]
  /\ predicted_reward = [a \in AgentIds |-> <<>>]
  /\ history_context = [a \in AgentIds |-> <<>>]
  /\ random_generator = [a \in AgentIds |-> 0]
  /\ np_random = 0
  /\ last = NoCall
  /\ turn = [a \in AgentIds |-> "Action"]
  /\ misuse = [a \in AgentIds |-> 0]
  /\ nUpdates = [a \in AgentIds |-> 0]
  /\ written = [a \in AgentIds |-> NoWrites]
  /\ trainLog = [a \in AgentIds |-> NoTraining]
  /\ Wctor = [a \in AgentIds |-> ParamZeros]
  /\ env \in Scripts

NextPair ==
  \E a \in AgentIds :
    \/ \E c \in PairConfigs : Construct(a, c)
    \/ /\ alive[a] /\ turn[a] = "Action" /\ t[a] < cfg[a].T
       /\ ActionCall(a, env[t[a] + 1].ctx)
    \/ /\ alive[a] /\ turn[a] = "Update" /\ t[a] < cfg[a].T
       /\ UpdateCall(a, env[t[a] + 1].reward)

SpecPair == InitPair /\ [][NextPair]_vars

\* ------------------------------------------------------------ claims
Histories(a) ==
  <<history_reward[a], history_action[a], predicted_reward[a], history_context[a]>>

\* C1: a call made out of turn (Update after Update, Action after Action, Update
\* before any Action) raises, and leaves t, U and every history buffer as they were
C1_OutOfTurnRejected ==
  [][\A a \in AgentIds :
       (last'.agent = a /\ last'.op \in {"Action", "Update"} /\ last'.op # turn[a])
       => /\ last'.result # "ok"
          /\ t'[a] = t[a]
          /\ U'[a] = U[a]
          /\ Histories(a)' = Histories(a)]_vars

\* C2: no agent exists with batchsize unset (construction raises instead), so no
\* Update fails part-way through retraining for want of it
C2_UnsetBatchsizeRejected ==
  /\ \A a \in AgentIds : alive[a] => cfg[a].batchsize # None
  /\ last.result # "TypeError"

\* C3: Action on a context matrix that is not K x d raises, and leaves t, U, the
\* history buffers and the weights as they were
C3_MalformedContextRejected ==
  [][\A a \in AgentIds :
       (last'.agent = a /\ last'.op = "Action" /\ ~WellFormed(last'.arg))
       => /\ last'.result # "ok"
          /\ t'[a] = t[a]
          /\ U'[a] = U[a]
          /\ Histories(a)' = Histories(a)
          /\ W'[a] = W[a]]_vars

\* C4: an Update that returns adds the outer product of its gradient vector g,
\* over m, to U: entry (i, j) grows by g[i] * g[j] / m
C4_OuterProductAccumulated ==
  [][\A a \in AgentIds :
       (last'.agent = a /\ last'.op = "Update" /\ last'.result = "ok")
       => LET g == last'.grads[1].g
          IN \A i \in 1..p : \A j \in 1..p :
               U'[a][i][j] = U[a][i][j] + Quot(g[i] * g[j], m)]_vars

\* C6: with the weights unchanged, GetGrad returns the same vector for the same
\* context on every call: two arms of one Action that carry the same context get
\* the same gradient
C6_GradientRepeatable ==
  \A i \in DOMAIN last.grads : \A j \in DOMAIN last.grads :
    last.grads[i].x = last.grads[j].x => last.grads[i].g = last.grads[j].g

\* C7: two agents built alike and fed the same rounds have chosen the same
\* actions and hold the same U whenever they have completed the same calls,
\* however their calls are interleaved
C7_SameSeedSameRun ==
  (/\ alive[1] /\ alive[2]
   /\ cfg[1] = cfg[2]
   /\ t[1] = t[2]
   /\ turn[1] = turn[2])
  => /\ history_action[1] = history_action[2]
     /\ U[1] = U[2]

Slots(n) == 0..(n - 1)

\* C8: t counts the Updates that returned (it starts at 0 and no Action moves
\* it); in a run of strictly alternating calls exactly the slots 0..t-1 of the
\* four buffers are written when an Action is due, so all T after T rounds
C8_RoundCounter ==
  \A a \in AgentIds :
    alive[a] =>
      /\ t[a] = nUpdates[a]
      /\ (misuse[a] = 0 /\ turn[a] = "Action") =>
           /\ written[a].action = Slots(t[a])
           /\ written[a].reward = Slots(t[a])
           /\ written[a].predicted = Slots(t[a])
           /\ written[a].context = Slots(t[a])
      /\ (misuse[a] = 0 /\ turn[a] = "Update") =>
           /\ written[a].action = Slots(t[a] + 1)
           /\ written[a].reward = Slots(t[a])
           /\ written[a].predicted = Slots(t[a] + 1)
           /\ written[a].context = Slots(t[a] + 1)

C8_Witness ==
  \E a \in AgentIds :
    /\ alive[a] /\ misuse[a] = 0
    /\ t[a] = cfg[a].T /\ cfg[a].T = MaxT
    /\ written[a].reward = Slots(MaxT) /\ written[a].context = Slots(MaxT)

\* C9: the snapshot W0 stays what construction drew, and every retraining
\* episode starts its first SGD step from those weights
C9_RetrainFromInitial ==
  \A a \in AgentIds :
    alive[a] =>
      /\ W0[a] = Wctor[a]
      /\ trainLog[a].ran => trainLog[a].start = Wctor[a]

C9_Witness ==
  \E a \in AgentIds :
    /\ alive[a] /\ trainLog[a].ran /\ trainLog[a].steps >= 1
    /\ trainLog[a].pre # Wctor[a]
    /\ W[a] # Wctor[a]

RECURSIVE Count(_, _)
Count(s, x) ==
  IF s = <<>> THEN 0 ELSE (IF s[1] = x THEN 1 ELSE 0) + Count(Tail(s), x)

\* the minibatches of one epoch split the bs-sized way the n pairs 0..n-1
IsPartition(batches, n, bs) ==
  /\ Len(batches) >= 1
  /\ \A x \in 0..(n - 1) : Count(Concat(batches), x) = 1
  /\ Len(Concat(batches)) = n
  /\ \A b \in 1..(Len(batches) - 1) : Len(batches[b]) = bs
  /\ Len(batches[Len(batches)]) >= 1
  /\ Len(batches[Len(batches)]) <= bs

\* C10: in every epoch of a retraining at round t the minibatches partition the
\* t + 1 recorded pairs: full batches of batchsize, then a non-empty last one
C10_MinibatchPartition ==
  \A a \in AgentIds :
    (alive[a] /\ trainLog[a].ran /\ cfg[a].batchsize # None) =>
      /\ Len(trainLog[a].epochs) = Min(trainLog[a].round, EpochCap)
      /\ \A e \in DOMAIN trainLog[a].epochs :
           IsPartition(trainLog[a].epochs[e], trainLog[a].round + 1,
                       cfg[a].batchsize[1])

C10_Witness ==
  \E a \in AgentIds :
    /\ alive[a] /\ trainLog[a].ran /\ cfg[a].batchsize # None
    /\ \E e \in DOMAIN trainLog[a].epochs :
         /\ Len(trainLog[a].epochs[e]) >= 2
         /\ Len(trainLog[a].epochs[e][Len(trainLog[a].epochs[e])])
              < cfg[a].batchsize[1]

====
